---- MODULE Spec2Model ----
(***************************************************************************)
(* Model of composite_services/manage_game/app.py: the reset orchestrator  *)
(* (reset_character_progress, full_game_reset, send_activity_log).         *)
(* One request is followed from its reception to its response; every      *)
(* remote call is one step whose outcome the environment chooses.          *)
(***************************************************************************)
EXTENDS Integers, Sequences, FiniteSets, TLC

VARIABLES
    pc,                  \* position of the handler in its code
    kind,                \* "partial" (/game/reset) or "full" (/game/full-reset)
    player_id,           \* the <int:player_id> of the route
    player_name,         \* full_game_reset: player_name
    max_health,          \* max_health read from the player record
    reset_results,       \* full_game_reset: the reset_results dict
    room_idx,            \* full_game_reset: position of the room loop in room_defaults
    room_update_success, \* full_game_reset: room_update_success
    calls,               \* history: the remote calls issued by this request, in order
    audit,               \* history: what send_activity_log did in this request
    response,            \* the response handed to the caller
    tid,                 \* the thread that runs the handler above
    parked,              \* SpecConc: the locals of the other thread, which is not running
    room_lists,          \* the room_defaults list objects, one per list identity
    world,               \* SpecTwice: the state the collaborators hold
    world0,              \* SpecTwice: that state before the first request
    runs                 \* SpecTwice: history of the completed requests

\* the local variables of one handler invocation (and its history)
locals == <<pc, kind, player_id, player_name, max_health, reset_results, room_idx,
            room_update_success, calls, audit, response>>

vars == <<pc, kind, player_id, player_name, max_health, reset_results, room_idx,
          room_update_success, calls, audit, response, tid, parked, room_lists,
          world, world0, runs>>

-----------------------------------------------------------------------------
(* Program constants *)

HTTP_OK == 200
HTTP_MULTI_STATUS == 207
HTTP_NOT_FOUND == 404
HTTP_SERVER_ERROR == 500
DefaultMaxHealth == 100
DefaultDamage == 10
StartRoom == 0
StartScore == 0

(* Inputs of the model *)

PlayerIds == {42, 999}

\* What a collaborator can do with one request: answer with a status, refuse
\* the connection, or never answer.
StatusCodes == {HTTP_OK, HTTP_NOT_FOUND, HTTP_SERVER_ERROR}
NetOutcomes ==
    [answer : {"status"}, status_code : StatusCodes]
        \cup {[answer |-> "refused", status_code |-> 0],
              [answer |-> "silent", status_code |-> 0]}

\* JSON bodies of a found player record (a dict), as the player service may send them.
PlayerBodies ==
    { [name |-> "Hero", max_health |-> 50],
      [MaxHealth |-> 80],
      [room_id |-> 3] }

-----------------------------------------------------------------------------
(* Python helpers *)

\* dict.get(key, default)
Get(d, key, default) == IF key \in DOMAIN d THEN d[key] ELSE default

\* requests.<verb>(url, timeout=...): the Response, or the exception raised.
\* bounded is TRUE for the calls made with timeout=5.
Requests(net, bounded) ==
    CASE net.answer = "status" ->
            [exc |-> "none", status_code |-> net.status_code]
      [] net.answer = "refused" ->
            [exc |-> "ConnectionError", status_code |-> 0]
      [] net.answer = "silent" ->
            [exc |-> IF bounded THEN "Timeout" ELSE "never_returns", status_code |-> 0]

Raised(r) == r.exc \in {"ConnectionError", "Timeout"}
NeverReturns(r) == r.exc = "never_returns"

\* str(e) resp. response.text, as far as the report distinguishes them
Detail(r) == IF Raised(r) THEN r.exc ELSE ToString(r.status_code)

Call(step, room, payload, r) ==
    [step |-> step, room |-> room, payload |-> payload, result |-> r]

NoPayload == [none |-> TRUE]

ErrorEntry(what, how, r) == [what |-> what, how |-> how, detail |-> Detail(r)]

-----------------------------------------------------------------------------
(* State of a request *)

InitialResults ==
    [player |-> FALSE, inventory |-> FALSE, rooms |-> FALSE, errors |-> <<>>]

NoAudit ==
    [invoked |-> 0, action |-> "none", outcome |-> "none", published |-> 0,
     open_connections |-> 0]

NoResponse ==
    [status |-> 0, body |-> "none", fault |-> "none", has_details |-> FALSE,
     reset_details |-> InitialResults]

\* the threads of the server
Tids == {1, 2}

\* the locals of a thread that serves no request yet
IdleThread(t) ==
    [tid |-> t, pc |-> "idle", kind |-> "none", player_id |-> 0,
     player_name |-> "none", max_health |-> 0, reset_results |-> InitialResults,
     room_idx |-> 1, room_update_success |-> TRUE, calls |-> <<>>,
     audit |-> NoAudit, response |-> NoResponse]

NoLists == [t \in Tids |-> <<>>]

\* no collaborator state is followed
NoWorld == [player |-> <<>>, inventory |-> {}, history |-> {}, rooms |-> <<>>]

IdleLocals ==
    /\ pc = "idle"
    /\ kind = "none"
    /\ player_id \in PlayerIds
    /\ player_name = "none"
    /\ max_health = 0
    /\ reset_results = InitialResults
    /\ room_idx = 1
    /\ room_update_success = TRUE
    /\ calls = <<>>
    /\ audit = NoAudit
    /\ response = NoResponse

Init ==
    /\ IdleLocals
    /\ tid = 1
    /\ parked = IdleThread(2)
    /\ room_lists = NoLists
    /\ world = NoWorld
    /\ world0 = NoWorld
    /\ runs = <<>>


-----------------------------------------------------------------------------
(* Classification of the collaborators' answers *)

\* variant: only the not-found status ends the request
PlayerFound_OnlyNotFoundEnds(r) == r.status_code # HTTP_NOT_FOUND

\* player_response.status_code != 200 is "Player not found"
PlayerFound(r) == r.status_code = HTTP_OK

\* player_reset.status_code == 200
PlayerResetOK(r) == r.status_code = HTTP_OK

\* variant: not-found is no longer acceptable for the delete
InventoryResetOK_SuccessOnly(r) == r.status_code = HTTP_OK

\* inventory_reset.status_code in [200, 404]
InventoryResetOK(r) == r.status_code \in {HTTP_OK, HTTP_NOT_FOUND}

\* player_interaction_reset.status_code == 200
InteractionResetOK(r) == r.status_code = HTTP_OK

\* room_reset.status_code != 200
RoomResetFailed(r) == r.status_code # HTTP_OK

\* player_data.get("max_health", player_data.get("MaxHealth", 100))
MaxHealthOf(player_data) ==
    Get(player_data, "max_health", Get(player_data, "MaxHealth", DefaultMaxHealth))

\* player_data.get("name", f"Player {player_id}")
NameOf(player_data, id) == Get(player_data, "name", "Player " \o ToString(id))

-----------------------------------------------------------------------------
(* Payloads *)

PartialPlayerPayload(mh) ==
    [current_health |-> mh, room_id |-> StartRoom, sum_score |-> StartScore]

\* variant: max_health is written as the fixed fallback, not the value read
FullPlayerPayload_FixedMaxHealth(mh) ==
    [current_health |-> mh, max_health |-> DefaultMaxHealth, damage |-> DefaultDamage,
     room_id |-> StartRoom, sum_score |-> StartScore]

\* json={"current_health": max_health, "max_health": max_health, ...}
FullPlayerPayload(mh) ==
    [current_health |-> mh, max_health |-> mh, damage |-> DefaultDamage,
     room_id |-> StartRoom, sum_score |-> StartScore]

room_defaults ==
    << [room_id |-> 1, item_ids |-> <<1, 2>>, enemy_ids |-> <<>>, door_locked |-> FALSE],
       [room_id |-> 2, item_ids |-> <<3, 5>>, enemy_ids |-> <<1>>, door_locked |-> FALSE],
       [room_id |-> 3, item_ids |-> <<4>>, enemy_ids |-> <<2>>, door_locked |-> TRUE] >>

\* room_data after room_data.pop("room_id")
RoomPayload(room_data) ==
    [k \in DOMAIN room_data \ {"room_id"} |-> room_data[k]]

-----------------------------------------------------------------------------
(* Folding a step's outcome into reset_results (the try/except around each call) *)

\* variant: the success branch forgets to set the flag
RecordPlayer_FlagNotSet(rr, r) ==
    IF Raised(r)
    THEN [rr EXCEPT !.errors = Append(@, ErrorEntry("Player reset", "error", r))]
    ELSE IF PlayerResetOK(r)
         THEN rr
         ELSE [rr EXCEPT !.errors = Append(@, ErrorEntry("Player reset", "failed", r))]

RecordPlayer(rr, r) ==
    IF Raised(r)
    THEN [rr EXCEPT !.errors = Append(@, ErrorEntry("Player reset", "error", r))]
    ELSE IF PlayerResetOK(r)
         THEN [rr EXCEPT !.player = TRUE]
         ELSE [rr EXCEPT !.errors = Append(@, ErrorEntry("Player reset", "failed", r))]

\* variant: a failed delete also clears the player flag
RecordInventory_ClearsPlayer(rr, r) ==
    IF Raised(r)
    THEN [rr EXCEPT !.player = FALSE,
                    !.errors = Append(@, ErrorEntry("Inventory reset", "error", r))]
    ELSE IF InventoryResetOK(r)
         THEN [rr EXCEPT !.inventory = TRUE]
         ELSE [rr EXCEPT !.player = FALSE,
                         !.errors = Append(@, ErrorEntry("Inventory reset", "failed", r))]

RecordInventory(rr, r) ==
    IF Raised(r)
    THEN [rr EXCEPT !.errors = Append(@, ErrorEntry("Inventory reset", "error", r))]
    ELSE IF InventoryResetOK(r)
         THEN [rr EXCEPT !.inventory = TRUE]
         ELSE [rr EXCEPT !.errors = Append(@, ErrorEntry("Inventory reset", "failed", r))]

RecordInteraction(rr, r) ==
    IF Raised(r)
    THEN [rr EXCEPT !.errors =
              Append(@, ErrorEntry("Player interaction reset", "error", r))]
    ELSE IF InteractionResetOK(r)
         THEN rr
         ELSE [rr EXCEPT !.errors =
                   Append(@, ErrorEntry("Player interaction reset", "failed", r))]

RoomWhat(room_id) == "Room " \o ToString(room_id) \o " reset"

\* variant: an exception of a room update is swallowed without an entry
RecordRoom_ExceptionDropped(rr, room_id, r) ==
    IF Raised(r)
    THEN rr
    ELSE IF RoomResetFailed(r)
         THEN [rr EXCEPT !.errors = Append(@, ErrorEntry(RoomWhat(room_id), "failed", r))]
         ELSE rr

\* one iteration of the room loop: the errors it appends
RecordRoom(rr, room_id, r) ==
    IF Raised(r)
    THEN [rr EXCEPT !.errors = Append(@, ErrorEntry(RoomWhat(room_id), "error", r))]
    ELSE IF RoomResetFailed(r)
         THEN [rr EXCEPT !.errors = Append(@, ErrorEntry(RoomWhat(room_id), "failed", r))]
         ELSE rr

\* one iteration of the room loop: room_update_success afterwards
RoomSuccessAfter(success, r) ==
    IF Raised(r) \/ RoomResetFailed(r) THEN FALSE ELSE success

\* variant: the try encloses the loop, so an exception ends it
RoomLoopContinues_StopsOnException(idx, r) ==
    idx < Len(room_defaults) /\ ~Raised(r)

\* for room_data in room_defaults: whether another iteration follows
RoomLoopContinues(idx, r) == idx < Len(room_defaults)

\* reset_results["rooms"] = room_update_success
RoomsFlag(success) == success

\* variant: the call of send_activity_log after the loop is missing
AfterRoomLoop_NoAudit == "respond"

\* after the room loop: send_activity_log(...), then the returns
AfterRoomLoop == "audit"

\* all([player, inventory, rooms])
OverallSuccess(rr) == rr.player /\ rr.inventory /\ rr.rooms

-----------------------------------------------------------------------------
(* Responses *)

NotFoundResponse ==
    [status |-> HTTP_NOT_FOUND, body |-> "Player not found", fault |-> "none",
     has_details |-> FALSE, reset_details |-> InitialResults]

\* variant: the boundary handler answers with a generic message, without str(e)
HardFailureResponse_FaultDropped(rr, e) ==
    [status |-> HTTP_SERVER_ERROR, body |-> "Failed to reset game", fault |-> "none",
     has_details |-> TRUE, reset_details |-> rr]

\* the except clause at the boundary of full_game_reset:
\* {"error": f"Failed to reset game: {str(e)}", "reset_details": reset_results}
HardFailureResponse(rr, e) ==
    [status |-> HTTP_SERVER_ERROR, body |-> "Failed to reset game", fault |-> e,
     has_details |-> TRUE, reset_details |-> rr]

\* an exception leaving reset_character_progress, which has no handler of its own:
\* the framework answers with its own server-error page
UnhandledResponse ==
    [status |-> HTTP_SERVER_ERROR, body |-> "unhandled exception", fault |-> "none",
     has_details |-> FALSE, reset_details |-> InitialResults]

PartialResponse ==
    [status |-> HTTP_OK, body |-> "Progress reset", fault |-> "none",
     has_details |-> FALSE, reset_details |-> InitialResults]

\* variant: success is answered only when the audit record was published
FullResponse_AuditCounts(rr) ==
    IF OverallSuccess(rr) /\ audit.published > 0
    THEN [status |-> HTTP_OK, body |-> "Game fully reset", fault |-> "none",
          has_details |-> TRUE, reset_details |-> rr]
    ELSE [status |-> HTTP_MULTI_STATUS, body |-> "Game partially reset",
          fault |-> "none", has_details |-> TRUE, reset_details |-> rr]

FullResponse(rr) ==
    IF OverallSuccess(rr)
    THEN [status |-> HTTP_OK, body |-> "Game fully reset", fault |-> "none",
          has_details |-> TRUE, reset_details |-> rr]
    ELSE [status |-> HTTP_MULTI_STATUS, body |-> "Game partially reset",
          fault |-> "none", has_details |-> TRUE, reset_details |-> rr]


-----------------------------------------------------------------------------
(* Actions *)

\* what a handler step leaves alone: the other thread and the collaborators' state
Frame == UNCHANGED <<tid, parked, world, world0, runs>>

\* variant: room_defaults is one module-level list, used by every request
RoomListOf_Shared(t) == CHOOSE u \in Tids : \A v \in Tids : u <= v

\* room_defaults = [...] inside full_game_reset: every invocation builds its own list
RoomListOf(t) == t

\* A request arrives on one of the two routes; full_game_reset starts with a
\* fresh reset_results. The list a previous invocation built is unreachable.
ReceiveStep(k, id) ==
    /\ pc \in {"idle", "done"}
    /\ kind' = k
    /\ player_id' = id
    /\ pc' = "lookup"
    /\ player_name' = "none"
    /\ max_health' = 0
    /\ reset_results' = InitialResults
    /\ room_idx' = 1
    /\ room_update_success' = TRUE
    /\ calls' = <<>>
    /\ audit' = NoAudit
    /\ response' = NoResponse
    /\ room_lists' = [room_lists EXCEPT ![RoomListOf(tid)] = <<>>]

Receive ==
    /\ \E k \in {"partial", "full"}, id \in PlayerIds : ReceiveStep(k, id)
    /\ Frame

Finish(resp) ==
    /\ pc' = "done"
    /\ response' = resp

\* a body that player_response.json() cannot parse
NotJson == [not_json |-> TRUE]

\* reset_character_progress: requests.get(player) and the check of its status.
\* Nothing catches an exception here.
PartialLookupStep(r, doc) ==
    /\ pc = "lookup" /\ kind = "partial"
    /\ calls' = Append(calls, Call("player_get", 0, NoPayload, r))
    /\ IF NeverReturns(r)
       THEN pc' = "hung" /\ UNCHANGED <<response, max_health>>
       ELSE IF Raised(r)
       THEN Finish(UnhandledResponse) /\ UNCHANGED max_health
       ELSE IF ~PlayerFound(r)
       THEN Finish(NotFoundResponse) /\ UNCHANGED max_health
       ELSE IF doc = NotJson
       THEN \* player_response.json() raises
            Finish(UnhandledResponse) /\ UNCHANGED max_health
       ELSE /\ max_health' = MaxHealthOf(doc)
            /\ pc' = "player_put"
            /\ UNCHANGED response
    /\ UNCHANGED <<kind, player_id, player_name, reset_results, room_idx,
                   room_update_success, audit, room_lists>>

PartialLookup ==
    /\ \E net \in NetOutcomes, doc \in PlayerBodies \cup {NotJson} :
          PartialLookupStep(Requests(net, FALSE), doc)
    /\ Frame

\* reset_character_progress: requests.put(player), no timeout, status ignored
PartialPlayerResetStep(r) ==
    /\ pc = "player_put" /\ kind = "partial"
    /\ calls' = Append(calls,
           Call("player_put", 0, PartialPlayerPayload(max_health), r))
    /\ IF NeverReturns(r)
       THEN pc' = "hung" /\ UNCHANGED response
       ELSE IF Raised(r)
       THEN Finish(UnhandledResponse)
       ELSE pc' = "enemy_reset" /\ UNCHANGED response
    /\ UNCHANGED <<kind, player_id, player_name, max_health, reset_results, room_idx,
                   room_update_success, audit, room_lists>>

PartialPlayerReset ==
    /\ \E net \in NetOutcomes : PartialPlayerResetStep(Requests(net, FALSE))
    /\ Frame

\* reset_character_progress: requests.get(enemy/reset), no timeout, status ignored
PartialEnemyResetStep(r) ==
    /\ pc = "enemy_reset" /\ kind = "partial"
    /\ calls' = Append(calls, Call("enemy_reset", 0, NoPayload, r))
    /\ IF NeverReturns(r)
       THEN pc' = "hung" /\ UNCHANGED response
       ELSE IF Raised(r)
       THEN Finish(UnhandledResponse)
       ELSE pc' = "audit" /\ UNCHANGED response
    /\ UNCHANGED <<kind, player_id, player_name, max_health, reset_results, room_idx,
                   room_update_success, audit, room_lists>>

PartialEnemyReset ==
    /\ \E net \in NetOutcomes : PartialEnemyResetStep(Requests(net, FALSE))
    /\ Frame

\* full_game_reset, step 1: requests.get(player) inside the outer try
FullLookupStep(r, doc) ==
    /\ pc = "lookup" /\ kind = "full"
    /\ calls' = Append(calls, Call("player_get", 0, NoPayload, r))
    /\ IF NeverReturns(r)
       THEN pc' = "hung" /\ UNCHANGED <<response, max_health, player_name>>
       ELSE IF Raised(r)
       THEN /\ Finish(HardFailureResponse(reset_results, r.exc))
            /\ UNCHANGED <<max_health, player_name>>
       ELSE IF ~PlayerFound(r)
       THEN Finish(NotFoundResponse) /\ UNCHANGED <<max_health, player_name>>
       ELSE IF doc = NotJson
       THEN \* player_response.json() raises
            /\ Finish(HardFailureResponse(reset_results, "JSONDecodeError"))
            /\ UNCHANGED <<max_health, player_name>>
       ELSE /\ player_name' = NameOf(doc, player_id)
            /\ max_health' = MaxHealthOf(doc)
            /\ pc' = "player_put"
            /\ UNCHANGED response
    /\ UNCHANGED <<kind, player_id, reset_results, room_idx, room_update_success,
                   audit, room_lists>>

FullLookup ==
    /\ \E net \in NetOutcomes, doc \in PlayerBodies \cup {NotJson} :
          FullLookupStep(Requests(net, FALSE), doc)
    /\ Frame

\* full_game_reset, step 2
FullPlayerResetStep(r) ==
    /\ pc = "player_put" /\ kind = "full"
    /\ calls' = Append(calls,
           Call("player_put", 0, FullPlayerPayload(max_health), r))
    /\ reset_results' = RecordPlayer(reset_results, r)
    /\ pc' = "inventory_delete"
    /\ UNCHANGED <<kind, player_id, player_name, max_health, room_idx,
                   room_update_success, audit, response, room_lists>>

FullPlayerReset ==
    /\ \E net \in NetOutcomes : FullPlayerResetStep(Requests(net, TRUE))
    /\ Frame

\* full_game_reset, step 3
FullInventoryResetStep(r) ==
    /\ pc = "inventory_delete" /\ kind = "full"
    /\ calls' = Append(calls, Call("inventory_delete", 0, NoPayload, r))
    /\ reset_results' = RecordInventory(reset_results, r)
    /\ pc' = "interaction_reset"
    /\ UNCHANGED <<kind, player_id, player_name, max_health, room_idx,
                   room_update_success, audit, response, room_lists>>

FullInventoryReset ==
    /\ \E net \in NetOutcomes : FullInventoryResetStep(Requests(net, TRUE))
    /\ Frame

\* full_game_reset, step 3.5
FullInteractionResetStep(r) ==
    /\ pc = "interaction_reset" /\ kind = "full"
    /\ calls' = Append(calls, Call("interaction_reset", 0, NoPayload, r))
    /\ reset_results' = RecordInteraction(reset_results, r)
    /\ pc' = "room_put"
    /\ room_idx' = 1
    /\ room_update_success' = TRUE
    /\ UNCHANGED <<kind, player_id, player_name, max_health, audit, response,
                   room_lists>>

FullInteractionReset ==
    /\ \E net \in NetOutcomes : FullInteractionResetStep(Requests(net, TRUE))
    /\ Frame

\* full_game_reset, step 4: one iteration of the loop over room_defaults (the
\* first one preceded by the construction of the list), the last one followed
\* by reset_results["rooms"] = room_update_success. room_data.pop("room_id")
\* changes the dict of the list in place; it raises KeyError, caught by the
\* except clause around the loop, if the dict holds no room_id any more; the
\* for statement ends the loop when the list holds no further element.
FullRoomResetStep(r) ==
    /\ pc = "room_put" /\ kind = "full"
    /\ LET my == RoomListOf(tid)
           lists == IF room_idx = 1
                    THEN [room_lists EXCEPT ![my] = room_defaults]
                    ELSE room_lists
           room_data == lists[my][room_idx]
       IN
       IF room_idx > Len(lists[my])
       THEN /\ room_lists' = lists
            /\ reset_results' =
                   [reset_results EXCEPT !.rooms = RoomsFlag(room_update_success)]
            /\ pc' = AfterRoomLoop
            /\ UNCHANGED <<calls, room_idx, room_update_success>>
       ELSE IF "room_id" \notin DOMAIN room_data
       THEN /\ room_lists' = lists
            /\ reset_results' =
                   [reset_results EXCEPT !.errors =
                        Append(@, [what |-> "Room reset process", how |-> "error",
                                   detail |-> "KeyError"])]
            /\ pc' = AfterRoomLoop
            /\ UNCHANGED <<calls, room_idx, room_update_success>>
       ELSE LET room_id == room_data.room_id
                popped == RoomPayload(room_data)
                success == RoomSuccessAfter(room_update_success, r)
                rr == RecordRoom(reset_results, room_id, r)
            IN
            /\ room_lists' = [lists EXCEPT ![my][room_idx] = popped]
            /\ calls' = Append(calls, Call("room_put", room_id, popped, r))
            /\ room_update_success' = success
            /\ IF RoomLoopContinues(room_idx, r)
               THEN /\ room_idx' = room_idx + 1
                    /\ reset_results' = rr
                    /\ pc' = "room_put"
               ELSE /\ room_idx' = room_idx
                    /\ reset_results' = [rr EXCEPT !.rooms = RoomsFlag(success)]
                    /\ pc' = AfterRoomLoop
    /\ UNCHANGED <<kind, player_id, player_name, max_health, audit, response>>

FullRoomReset ==
    /\ \E net \in NetOutcomes : FullRoomResetStep(Requests(net, TRUE))
    /\ Frame

\* send_activity_log: what the broker does with the connection, the channel,
\* the queue declaration and the publish
BrokerOutcomes ==
    {"connection_refused", "channel_error", "declare_error", "publish_error", "ok"}

\* variant: the handler catches connection errors only
Caught_ConnectionErrorsOnly(outcome) == outcome \in {"connection_refused", "ok"}

\* except Exception as e: every failure of the broker is caught and logged
Caught(outcome) == TRUE

\* the action passed to send_activity_log by each handler
ActionOf(k) ==
    IF k = "full" THEN "Full game reset performed" ELSE "Game progress reset"

\* connection.close() is the last statement of the try block: it is reached
\* only when channel(), queue_declare() and basic_publish() all returned
AuditAfter(a, action, outcome) ==
    [invoked |-> a.invoked + 1,
     action |-> action,
     outcome |-> outcome,
     published |-> IF outcome = "ok" THEN a.published + 1 ELSE a.published,
     open_connections |->
         IF outcome \in {"channel_error", "declare_error", "publish_error"}
         THEN a.open_connections + 1
         ELSE a.open_connections]

SendActivityLogStep(outcome) ==
    /\ pc = "audit"
    /\ audit' = AuditAfter(audit, ActionOf(kind), outcome)
    /\ IF Caught(outcome)
       THEN pc' = "respond" /\ UNCHANGED response
       ELSE \* the exception leaves send_activity_log
            IF kind = "full"
            THEN Finish(HardFailureResponse(reset_results, "AMQPError"))
            ELSE Finish(UnhandledResponse)
    /\ UNCHANGED <<kind, player_id, player_name, max_health, reset_results, room_idx,
                   room_update_success, calls, room_lists>>

SendActivityLog ==
    /\ \E outcome \in BrokerOutcomes : SendActivityLogStep(outcome)
    /\ Frame

\* reset_character_progress: the final return
PartialRespondStep ==
    /\ pc = "respond" /\ kind = "partial"
    /\ Finish(PartialResponse)
    /\ UNCHANGED <<kind, player_id, player_name, max_health, reset_results, room_idx,
                   room_update_success, calls, audit, room_lists>>

PartialRespond == PartialRespondStep /\ Frame

\* full_game_reset: overall_success and the two returns
FullRespondStep ==
    /\ pc = "respond" /\ kind = "full"
    /\ Finish(FullResponse(reset_results))
    /\ UNCHANGED <<kind, player_id, player_name, max_health, reset_results, room_idx,
                   room_update_success, calls, audit, room_lists>>

FullRespond == FullRespondStep /\ Frame

Next ==
    \/ Receive
    \/ PartialLookup
    \/ PartialPlayerReset
    \/ PartialEnemyReset
    \/ FullLookup
    \/ FullPlayerReset
    \/ FullInventoryReset
    \/ FullInteractionReset
    \/ FullRoomReset
    \/ SendActivityLog
    \/ PartialRespond
    \/ FullRespond

Spec == Init /\ [][Next]_vars


-----------------------------------------------------------------------------
(* Vocabulary of the properties *)

Answered(c, code) == c.result.exc = "none" /\ c.result.status_code = code

\* the lookup returned a response, and its status was not the found status
LookupReportedNotFound ==
    /\ Len(calls) >= 1
    /\ calls[1].step = "player_get"
    /\ calls[1].result.exc = "none"
    /\ calls[1].result.status_code # HTTP_OK

\* a step of a plan succeeded: success status, or not-found for the delete
StepSucceeded(c) ==
    \/ Answered(c, HTTP_OK)
    \/ c.step = "inventory_delete" /\ Answered(c, HTTP_NOT_FOUND)

MutatingCalls == SelectSeq(calls, LAMBDA c : c.step # "player_get")

FailedCalls == SelectSeq(MutatingCalls, LAMBDA c : ~StepSucceeded(c))

SeqAll(seq, P(_)) == \A i \in 1..Len(seq) : P(seq[i])
SeqSome(seq, P(_)) == \E i \in 1..Len(seq) : P(seq[i])

\* the fixed plan of the full reset, the lookup first
FullPlan ==
    << <<"player_get", 0>>, <<"player_put", 0>>, <<"inventory_delete", 0>>,
       <<"interaction_reset", 0>>, <<"room_put", 1>>, <<"room_put", 2>>,
       <<"room_put", 3>> >>

Issued == [i \in 1..Len(calls) |-> <<calls[i].step, calls[i].room>>]

FullResolved == kind = "full" /\ player_name # "none"

\* a full reset has answered with success or multi-status
FullReported ==
    /\ pc = "done"
    /\ kind = "full"
    /\ response.status \in {HTTP_OK, HTTP_MULTI_STATUS}

AllTrueNoErrors ==
    [player |-> TRUE, inventory |-> TRUE, rooms |-> TRUE, errors |-> <<>>]

-----------------------------------------------------------------------------
(* C1: in both reset operations, when the player lookup answers with a status
   other than found, the request ends at once with the not-found response: the
   lookup is the only remote call of the request and the audit notifier is not
   invoked. *)
C1_NotFoundShortCircuits ==
    LookupReportedNotFound =>
        /\ pc = "done"
        /\ response = NotFoundResponse
        /\ Len(calls) = 1
        /\ audit = NoAudit

C1_Witness ==
    /\ pc = "done"
    /\ kind = "full"
    /\ player_id = 999
    /\ LookupReportedNotFound
    /\ Answered(calls[1], HTTP_NOT_FOUND)
    /\ response.status = HTTP_NOT_FOUND

(* C2: a resolved full reset answers with the success status iff every step of
   the plan succeeded and the reported errors list is empty; a run with a failed
   and a succeeded step answers multi-status. *)
C2_SuccessIffEveryStepSucceeded ==
    FullReported =>
        /\ (response.status = HTTP_OK) <=>
               (/\ SeqAll(MutatingCalls, StepSucceeded)
                /\ response.reset_details.errors = <<>>)
        /\ (/\ SeqSome(MutatingCalls, LAMBDA c : ~StepSucceeded(c))
            /\ SeqSome(MutatingCalls, StepSucceeded))
               => response.status = HTTP_MULTI_STATUS

(* C3: when the player exists and the player update, the inventory delete, the
   interaction reset and the three room updates all return success, the response
   is the success status and reset_details is {player: true, inventory: true,
   rooms: true, errors: []}. *)
C3_AllStepsSucceedFullSuccess ==
    (/\ pc = "done"
     /\ FullResolved
     /\ SeqAll(MutatingCalls, LAMBDA c : Answered(c, HTTP_OK)))
        => /\ response.status = HTTP_OK
           /\ response.has_details
           /\ response.reset_details = AllTrueNoErrors

C3_Witness ==
    /\ pc = "done"
    /\ FullResolved
    /\ player_id = 42
    /\ max_health = DefaultMaxHealth
    /\ Len(MutatingCalls) = 6
    /\ SeqAll(MutatingCalls, LAMBDA c : Answered(c, HTTP_OK))
    /\ response.reset_details = AllTrueNoErrors

(* C4: a resolved full reset issues its calls in the order of the plan, each
   once, and reaches the audit and the response only with the whole plan issued,
   whatever the earlier steps' outcomes were. *)
C4_EveryStepOnceInOrder ==
    kind = "full" =>
        /\ Len(Issued) <= Len(FullPlan)
        /\ Issued = SubSeq(FullPlan, 1, Len(Issued))
        /\ (FullResolved /\ pc \in {"audit", "respond", "done"})
               => Issued = FullPlan

C4_Witness ==
    /\ pc = "done"
    /\ FullResolved
    /\ Issued = FullPlan
    /\ calls[2].result.exc = "Timeout"
    /\ Answered(calls[3], HTTP_SERVER_ERROR)
    /\ calls[4].result.exc = "ConnectionError"
    /\ Answered(calls[5], HTTP_SERVER_ERROR)
    /\ calls[6].result.exc = "Timeout"
    /\ Answered(calls[7], HTTP_OK)

StepLabel(c) ==
    CASE c.step = "player_put" -> "Player reset"
      [] c.step = "inventory_delete" -> "Inventory reset"
      [] c.step = "interaction_reset" -> "Player interaction reset"
      [] c.step = "room_put" -> "Room " \o ToString(c.room) \o " reset"
      [] OTHER -> "none"

(* C5: in every report of a full reset the errors list is the list of the failed
   steps in the order of their execution: one entry per failed step, naming the
   step and its failure, and none for a step that succeeded. *)
C5_ErrorsAreTheFailedSteps ==
    (pc = "done" /\ kind = "full" /\ response.has_details) =>
        LET errors == response.reset_details.errors IN
        /\ Len(errors) = Len(FailedCalls)
        /\ \A i \in 1..Len(FailedCalls) :
              /\ errors[i].what = StepLabel(FailedCalls[i])
              /\ errors[i].how =
                     (IF FailedCalls[i].result.exc = "none" THEN "failed" ELSE "error")
              /\ errors[i].detail = Detail(FailedCalls[i].result)

C5_Witness ==
    /\ FullReported
    /\ Len(response.reset_details.errors) = 3
    /\ calls[2].result.exc = "Timeout"
    /\ Answered(calls[3], HTTP_NOT_FOUND)
    /\ Answered(calls[4], HTTP_NOT_FOUND)
    /\ Answered(calls[5], HTTP_OK)
    /\ calls[6].result.exc = "ConnectionError"
    /\ Answered(calls[7], HTTP_OK)

(* C6: a full reset answers multi-status only if at least one collaborator flag
   of the report is true. *)
C6_PartialNeedsOneSuccess ==
    (FullReported /\ response.status = HTTP_MULTI_STATUS) =>
        \/ response.reset_details.player
        \/ response.reset_details.inventory
        \/ response.reset_details.rooms

\* the flags of a report, as the outcomes of their own steps determine them
FlagsFromOwnSteps(rd) ==
    /\ rd.player = Answered(calls[2], HTTP_OK)
    /\ rd.inventory =
           (Answered(calls[3], HTTP_OK) \/ Answered(calls[3], HTTP_NOT_FOUND))
    /\ rd.rooms = \A i \in 5..7 : Answered(calls[i], HTTP_OK)

\* one step of a full reset: what it may change in reset_results
StepFrame ==
    LET rr == reset_results
        rr2 == reset_results'
    IN
    IF calls' = calls
    THEN rr2 = rr
    ELSE LET c == calls'[Len(calls')] IN
         /\ calls' = Append(calls, c)
         /\ c.step # "player_put" => rr2.player = rr.player
         /\ c.step # "inventory_delete" => rr2.inventory = rr.inventory
         /\ c.step # "room_put" => rr2.rooms = rr.rooms
         /\ Len(rr2.errors) =
                Len(rr.errors) + (IF c.step # "player_get" /\ ~StepSucceeded(c)
                                  THEN 1 ELSE 0)
         /\ SubSeq(rr2.errors, 1, Len(rr.errors)) = rr.errors

(* C7: in a full reset every flag of the report is decided by its own step(s)
   alone (player: the update returned success; inventory: the delete returned
   success or not-found; rooms: the three updates returned success), and a step
   changes no flag but its own and adds one error entry iff it failed. *)
C7_FlagsDependOnOwnSteps ==
    [][ (kind = "full" /\ kind' = "full" /\ pc # "done") =>
            /\ StepFrame
            /\ FullReported' => (/\ response'.reset_details = reset_results
                                 /\ FlagsFromOwnSteps(response'.reset_details)) ]_vars

C7_Witness ==
    /\ FullReported
    /\ response.status = HTTP_MULTI_STATUS
    /\ calls[3].result.exc = "Timeout"
    /\ response.reset_details.player
    /\ ~response.reset_details.inventory
    /\ response.reset_details.rooms
    /\ Len(response.reset_details.errors) = 1
    /\ response.reset_details.errors[1].detail = "Timeout"

(* C8: in a full reset an inventory delete answered with not-found sets the
   inventory flag and adds no error entry, so that with every other step
   returning success the response is the success status with no errors. *)
C8_InventoryNotFoundIsSuccess ==
    (FullReported /\ Answered(calls[3], HTTP_NOT_FOUND)) =>
        /\ response.reset_details.inventory
        /\ \A i \in 1..Len(response.reset_details.errors) :
              response.reset_details.errors[i].what # "Inventory reset"
        /\ (\A i \in {2, 4, 5, 6, 7} : Answered(calls[i], HTTP_OK))
               => /\ response.status = HTTP_OK
                  /\ response.reset_details = AllTrueNoErrors

C8_Witness ==
    /\ FullReported
    /\ Answered(calls[3], HTTP_NOT_FOUND)
    /\ \A i \in {2, 4, 5, 6, 7} : Answered(calls[i], HTTP_OK)
    /\ response.status = HTTP_OK

\* the lookup and the mutating calls of each plan
PlanLength == IF kind = "full" THEN Len(FullPlan) ELSE 3

(* C9: in both reset operations, once the player is resolved, a failure of a
   mutating call never ends the request with an unhandled exception: the whole
   plan is issued and the response is a report that records the failure. *)
C9_FailuresBecomeData ==
    (pc = "done" /\ Len(FailedCalls) > 0) =>
        /\ response # UnhandledResponse
        /\ Len(calls) = PlanLength
        /\ response.has_details
        /\ Len(response.reset_details.errors) > 0

(* C10: the partial reset answers with its success report only if the player
   update and the enemy reset both returned success. *)
C10_PartialSuccessIsHonest ==
    (pc = "done" /\ kind = "partial" /\ response = PartialResponse) =>
        /\ Answered(calls[2], HTTP_OK)
        /\ Answered(calls[3], HTTP_OK)


-----------------------------------------------------------------------------
\* the response of a completed plan, as the outcomes of its steps alone decide it
ResponseOfSteps(resp) ==
    IF kind = "partial"
    THEN resp = PartialResponse
    ELSE /\ resp.has_details
         /\ FlagsFromOwnSteps(resp.reset_details)
         /\ Len(resp.reset_details.errors) = Len(FailedCalls)
         /\ resp.status = (IF /\ Answered(calls[2], HTTP_OK)
                              /\ StepSucceeded(calls[3])
                              /\ \A i \in 5..7 : Answered(calls[i], HTTP_OK)
                           THEN HTTP_OK ELSE HTTP_MULTI_STATUS)

(* C11: in both reset operations the audit publication, whatever its outcome,
   leads to the return statement with the calls, the report and the response
   untouched and the notifier invoked once more, and the response then returned
   is the one the outcomes of the steps decide. *)
C11_AuditNeverAffectsResponse ==
    [][ /\ pc = "audit" =>
              /\ pc' = "respond"
              /\ audit'.invoked = audit.invoked + 1
              /\ UNCHANGED <<calls, reset_results, response>>
        /\ pc = "respond" =>
              /\ pc' = "done"
              /\ UNCHANGED <<calls, audit>>
              /\ ResponseOfSteps(response') ]_vars

C11_Witness ==
    /\ FullReported
    /\ response.status = HTTP_OK
    /\ audit.outcome = "publish_error"
    /\ audit.invoked = 1

(* C12: a request that ends with success or multi-status has invoked the audit
   notifier exactly once, with the plan's message, after the last call of the
   plan and before the response; a request that ends with not-found or a server
   error has not invoked it. *)
C12_AuditExactlyOncePerPlan ==
    /\ audit.invoked <= 1
    /\ audit.invoked = 1 =>
          /\ Len(calls) = PlanLength
          /\ audit.action = ActionOf(kind)
          /\ pc \in {"respond", "done"}
    /\ pc = "respond" => (audit.invoked = 1 /\ response = NoResponse)
    /\ pc = "done" =>
          /\ response.status \in {HTTP_OK, HTTP_MULTI_STATUS} => audit.invoked = 1
          /\ response.status \in {HTTP_NOT_FOUND, HTTP_SERVER_ERROR} => audit.invoked = 0

C12_Witness ==
    /\ FullReported
    /\ response.status = HTTP_MULTI_STATUS
    /\ audit.invoked = 1
    /\ audit.published = 1
    /\ audit.action = "Full game reset performed"

(* C13: no call of the audit notifier leaves a connection open. *)
C13_ConnectionAlwaysClosed == audit.open_connections = 0

(* C14: no remote call of either reset operation waits forever for its answer:
   a collaborator that never answers is turned into a failure. *)
C14_NoCallHangs ==
    /\ pc # "hung"
    /\ \A i \in 1..Len(calls) : ~NeverReturns(calls[i].result)

(* C15: a resolved full reset calls the enemy service's reset exactly once. *)
C15_FullResetResetsEnemies ==
    FullReported =>
        Cardinality({i \in 1..Len(calls) : calls[i].step = "enemy_reset"}) = 1

HardFailure ==
    pc = "done" /\ kind = "full" /\ response.body = "Failed to reset game"

(* C16: a full reset ends with the hard-failure response only when no mutating
   call was issued; with the player update issued it ends with success or
   multi-status. *)
C16_HardFailureOnlyBeforeSteps ==
    /\ HardFailure => Len(MutatingCalls) = 0
    /\ (pc = "done" /\ kind = "full" /\ Len(MutatingCalls) > 0)
           => response.status \in {HTTP_OK, HTTP_MULTI_STATUS}

C16_Witness ==
    /\ HardFailure
    /\ response.status = HTTP_SERVER_ERROR
    /\ response.fault = "JSONDecodeError"
    /\ Answered(calls[1], HTTP_OK)
    /\ Len(calls) = 1

\* the fault that reached the boundary of full_game_reset
FaultOfRun ==
    IF Raised(calls[1].result) THEN calls[1].result.exc ELSE "JSONDecodeError"

(* C17, as claimed: the hard-failure report carries the flags and errors
   accumulated before the fault, and its errors list holds the description of the
   fault. *)
C17_FaultInErrorsList ==
    HardFailure =>
        /\ response.reset_details = reset_results
        /\ \E i \in 1..Len(response.reset_details.errors) :
              response.reset_details.errors[i].detail = FaultOfRun

(* C17, amended: the hard-failure response carries the flags and errors
   accumulated before the fault as reset_details, and the description of the
   fault in its own error field; the errors list holds the failed steps only. *)
C17_FaultInErrorField ==
    HardFailure =>
        /\ response.has_details
        /\ response.reset_details = reset_results
        /\ response.fault = FaultOfRun
        /\ Len(response.reset_details.errors) = Len(FailedCalls)

C17_Witness ==
    /\ HardFailure
    /\ calls[1].result.exc = "ConnectionError"
    /\ response.fault = "ConnectionError"
    /\ response.reset_details = InitialResults

(* C19: the not-found response is given only when the player service answered
   the lookup with not-found. *)
C19_NotFoundOnlyWhenReported ==
    (pc = "done" /\ response = NotFoundResponse) =>
        Answered(calls[1], HTTP_NOT_FOUND)


-----------------------------------------------------------------------------
(* Two requests served concurrently: the threaded server runs each request in
   a thread of its own, and the threads' steps interleave in any order. The
   handler's variables are the running thread's; a switch parks them and takes
   up the other thread's. *)

\* outcomes of a remote call followed in the concurrent runs
ConcOutcomes ==
    {[answer |-> "status", status_code |-> HTTP_OK],
     [answer |-> "refused", status_code |-> 0]}

\* the player service's document of each player
ConcPlayerDoc(id) ==
    IF id = 42 THEN [name |-> "Hero", max_health |-> 50] ELSE [MaxHealth |-> 80]

Running ==
    [tid |-> tid, pc |-> pc, kind |-> kind, player_id |-> player_id,
     player_name |-> player_name, max_health |-> max_health,
     reset_results |-> reset_results, room_idx |-> room_idx,
     room_update_success |-> room_update_success, calls |-> calls,
     audit |-> audit, response |-> response]

\* the scheduler runs the other thread: locals are per thread, the heap is not
Switch ==
    /\ parked' = Running
    /\ tid' = parked.tid
    /\ pc' = parked.pc
    /\ kind' = parked.kind
    /\ player_id' = parked.player_id
    /\ player_name' = parked.player_name
    /\ max_health' = parked.max_health
    /\ reset_results' = parked.reset_results
    /\ room_idx' = parked.room_idx
    /\ room_update_success' = parked.room_update_success
    /\ calls' = parked.calls
    /\ audit' = parked.audit
    /\ response' = parked.response
    /\ UNCHANGED <<room_lists, world, world0, runs>>

ConcReceive ==
    /\ \E id \in PlayerIds : ReceiveStep("full", id)
    /\ Frame

ConcLookup ==
    /\ \E net \in ConcOutcomes :
          FullLookupStep(Requests(net, FALSE), ConcPlayerDoc(player_id))
    /\ Frame

ConcPlayerReset ==
    /\ \E net \in ConcOutcomes : FullPlayerResetStep(Requests(net, TRUE))
    /\ Frame

ConcInventoryReset ==
    /\ \E net \in ConcOutcomes : FullInventoryResetStep(Requests(net, TRUE))
    /\ Frame

ConcInteractionReset ==
    /\ \E net \in ConcOutcomes : FullInteractionResetStep(Requests(net, TRUE))
    /\ Frame

ConcRoomReset ==
    /\ \E net \in ConcOutcomes : FullRoomResetStep(Requests(net, TRUE))
    /\ Frame

ConcSendActivityLog ==
    /\ SendActivityLogStep("ok")
    /\ Frame

ConcRespond == FullRespondStep /\ Frame

ConcNext ==
    \/ ConcReceive
    \/ ConcLookup
    \/ ConcPlayerReset
    \/ ConcInventoryReset
    \/ ConcInteractionReset
    \/ ConcRoomReset
    \/ ConcSendActivityLog
    \/ ConcRespond
    \/ Switch

SpecConc == Init /\ [][ConcNext]_vars


\* a thread's request has answered with a report
Reported(t) ==
    /\ t.pc = "done"
    /\ t.kind = "full"
    /\ t.response.status \in {HTTP_OK, HTTP_MULTI_STATUS}

FailedOf(t) ==
    SelectSeq(t.calls, LAMBDA c : c.step # "player_get" /\ ~StepSucceeded(c))

\* the report of a thread's request is the one its own calls decide, and the
\* calls are the plan's, with the snapshot and the room defaults of the request
OwnReport(t) ==
    LET rd == t.response.reset_details
        c == t.calls
    IN
    /\ [i \in 1..Len(c) |-> <<c[i].step, c[i].room>>] = FullPlan
    /\ t.max_health = MaxHealthOf(ConcPlayerDoc(t.player_id))
    /\ c[2].payload = FullPlayerPayload(t.max_health)
    /\ \A i \in 1..Len(room_defaults) :
          /\ c[4 + i].room = room_defaults[i].room_id
          /\ c[4 + i].payload = RoomPayload(room_defaults[i])
    /\ rd.player = Answered(c[2], HTTP_OK)
    /\ rd.inventory = StepSucceeded(c[3])
    /\ rd.rooms = \A i \in 5..7 : Answered(c[i], HTTP_OK)
    /\ Len(rd.errors) = Len(FailedOf(t))
    /\ \A i \in 1..Len(rd.errors) :
          /\ rd.errors[i].what = StepLabel(FailedOf(t)[i])
          /\ rd.errors[i].detail = Detail(FailedOf(t)[i].result)

(* C18: with two full resets running concurrently, their steps interleaved in
   any order, the report of each request (flags and errors) is the one the
   outcomes of its own steps decide, and each request sends the plan's room ids
   and payloads and its own player snapshot, whatever the other request has
   removed from its room-default entries. *)
C18_ReportsAreNotShared ==
    /\ Reported(Running) => OwnReport(Running)
    /\ Reported(parked) => OwnReport(parked)

\* a request has answered while the other one was in the middle of its room
\* loop, and the two reports to come differ
C18_Witness ==
    /\ Reported(Running)
    /\ OwnReport(Running)
    /\ response.status = HTTP_MULTI_STATUS
    /\ ~response.reset_details.rooms
    /\ parked.pc = "room_put"
    /\ parked.room_idx = 2
    /\ parked.room_update_success
    /\ Len(parked.reset_results.errors) = 0
    /\ parked.player_id # player_id
    /\ "room_id" \notin DOMAIN room_lists[parked.tid][1]
    /\ "room_id" \in DOMAIN room_lists[parked.tid][2]


-----------------------------------------------------------------------------
(* The full reset run repeatedly against collaborators whose state is followed:
   the player document, the inventory, the interaction history and the rooms.
   Every step of every run succeeds. *)

MaxRuns == 2

\* an update request overwrites the fields it names and keeps the others
Merge(doc, payload) ==
    [k \in DOMAIN doc \cup DOMAIN payload |->
        IF k \in DOMAIN payload THEN payload[k] ELSE doc[k]]

PlayerDocs ==
    {[name |-> "Hero", max_health |-> 50, current_health |-> 7, room_id |-> 3],
     [name |-> "Hero", MaxHealth |-> 80, sum_score |-> 12],
     [name |-> "Hero", current_health |-> 20]}

RoomStates ==
    {[i \in 1..Len(room_defaults) |-> RoomPayload(room_defaults[i])],
     [i \in 1..Len(room_defaults) |->
         [item_ids |-> <<>>, enemy_ids |-> <<>>, door_locked |-> FALSE]]}

Worlds ==
    [player : PlayerDocs, inventory : {{}, {1, 2}}, history : {{}, {"fought"}},
     rooms : RoomStates]

TwiceInit ==
    /\ IdleLocals
    /\ tid = 1
    /\ parked = IdleThread(2)
    /\ room_lists = NoLists
    /\ world \in Worlds
    /\ world0 = world
    /\ runs = <<>>

OK200 == [exc |-> "none", status_code |-> HTTP_OK]

\* the requests of a run: what was asked, without the answers
RequestsOf(cs) ==
    [i \in 1..Len(cs) |->
        [step |-> cs[i].step, room |-> cs[i].room, payload |-> cs[i].payload]]

TwiceReceive ==
    /\ Len(runs) < MaxRuns
    /\ ReceiveStep("full", player_id)
    /\ UNCHANGED <<tid, parked, world, world0, runs>>

\* the player service answers the lookup with the player's document
TwiceLookup ==
    /\ FullLookupStep(OK200, world.player)
    /\ UNCHANGED <<tid, parked, world, world0, runs>>

TwicePlayerReset ==
    /\ FullPlayerResetStep(OK200)
    /\ world' = [world EXCEPT
                    !.player = Merge(@, calls'[Len(calls')].payload)]
    /\ UNCHANGED <<tid, parked, world0, runs>>

\* the inventory service answers not-found when the player holds nothing
TwiceInventoryReset ==
    /\ FullInventoryResetStep(
           [exc |-> "none",
            status_code |-> IF world.inventory = {} THEN HTTP_NOT_FOUND ELSE HTTP_OK])
    /\ world' = [world EXCEPT !.inventory = {}]
    /\ UNCHANGED <<tid, parked, world0, runs>>

TwiceInteractionReset ==
    /\ FullInteractionResetStep(OK200)
    /\ world' = [world EXCEPT !.history = {}]
    /\ UNCHANGED <<tid, parked, world0, runs>>

TwiceRoomReset ==
    /\ FullRoomResetStep(OK200)
    /\ world' =
           IF Len(calls') > Len(calls)
           THEN LET c == calls'[Len(calls')] IN
                [world EXCEPT !.rooms[c.room] = Merge(@, c.payload)]
           ELSE world
    /\ UNCHANGED <<tid, parked, world0, runs>>

TwiceSendActivityLog ==
    /\ \E outcome \in BrokerOutcomes : SendActivityLogStep(outcome)
    /\ UNCHANGED <<tid, parked, world, world0, runs>>

TwiceRespond ==
    /\ FullRespondStep
    /\ runs' = Append(runs, [requests |-> RequestsOf(calls),
                             status |-> response'.status,
                             world |-> world])
    /\ UNCHANGED <<tid, parked, world, world0>>

TwiceNext ==
    \/ TwiceReceive
    \/ TwiceLookup
    \/ TwicePlayerReset
    \/ TwiceInventoryReset
    \/ TwiceInteractionReset
    \/ TwiceRoomReset
    \/ TwiceSendActivityLog
    \/ TwiceRespond

SpecTwice == TwiceInit /\ [][TwiceNext]_vars

(* C20: for an existing player, full resets run one after the other with every
   step succeeding all answer success, each later run issues the requests of
   the first run with the same payloads, the max_health written is the value
   read back (the fallback when the player had none), and the player, the
   inventory, the interaction history and the rooms after each later run equal
   those after the first run. *)
C20_FullResetIdempotent ==
    \A i \in 1..Len(runs) :
        /\ runs[i].status = HTTP_OK
        /\ runs[i].requests[2].payload.max_health = MaxHealthOf(world0.player)
        /\ runs[i].world.player.max_health = MaxHealthOf(world0.player)
        /\ runs[i].world.player.current_health = MaxHealthOf(world0.player)
        /\ i > 1 => /\ runs[i].requests = runs[1].requests
                    /\ runs[i].world = runs[1].world

\* two runs on a player without a max_health, whose state the first run changed
C20_Witness ==
    /\ Len(runs) = 2
    /\ "max_health" \notin DOMAIN world0.player
    /\ "MaxHealth" \notin DOMAIN world0.player
    /\ runs[2].requests[2].payload.max_health = DefaultMaxHealth
    /\ world0.inventory # {}
    /\ world0.history # {}
    /\ world0.rooms # runs[1].world.rooms
    /\ runs[1].world # world0
    /\ runs[2].world = runs[1].world
    /\ calls[3].result.status_code = HTTP_NOT_FOUND

====
